---- MODULE Spec2Model ----
(***************************************************************************)
(* Model of the jsonanalyzer package: the recursive structural walk of     *)
(* analyzer.py, the loader of file_handler.py and the report generation of *)
(* report.py.                                                              *)
(*                                                                         *)
(* Encoding.                                                               *)
(*  - A Python string that is compared or concatenated (object keys,       *)
(*    paths) is the sequence of its code points.                           *)
(*  - An Optional value is a sequence of length at most one: None is <<>>, *)
(*    a present value x is <<x>>.                                          *)
(*  - A Python value is a record [kind, keys, items]: kind is the Python   *)
(*    class, items the children in iteration order, and for a mapping      *)
(*    keys[i] is the key that items() yields with items[i].  A plain dict  *)
(*    yields distinct keys; a dict subclass may yield a key twice.         *)
(*  - A JSON document (the text of a file) has the same shape with the     *)
(*    JSON grammar's kinds; an object literal may repeat a member name.    *)
(***************************************************************************)
EXTENDS Integers, Sequences, FiniteSets, TLC

VARIABLES source, pc, calls, parsed_data, results,
          stats, duplicates, max_depth_tracker, stack,
          fresh, report_data, report

vars == <<source, pc, calls, parsed_data, results,
          stats, duplicates, max_depth_tracker, stack,
          fresh, report_data, report>>

(***************************************************************************)
(* Bounds of the model.                                                    *)
(***************************************************************************)
MaxNodes == 4
MaxCalls == 3
MaxDictNodes == 5
MaxReuseNodes == 3

None == <<>>
Some(x) == <<x>>

(***************************************************************************)
(* Strings as code points.                                                 *)
(***************************************************************************)
KeyA == <<97>>
KeyB == <<98>>
KeyX == <<120>>
KeyId == <<105, 100>>
KeyTags == <<116, 97, 103, 115>>
KeyMeta == <<109, 101, 116, 97>>
Keys == {KeyA, KeyB}
RootPath == <<114, 111, 111, 116>>
Dot == 46
LBracket == 91
RBracket == 93
Zero == 48

RECURSIVE Digits(_)
Digits(i) == IF i < 10 THEN <<Zero + i>> ELSE Digits(i \div 10) \o <<Zero + (i % 10)>>

\* Python's < on str: lexicographic by code point
RECURSIVE StrLess(_, _)
StrLess(a, b) ==
    IF b = <<>> THEN FALSE
    ELSE IF a = <<>> THEN TRUE
    ELSE IF Head(a) # Head(b) THEN Head(a) < Head(b)
    ELSE StrLess(Tail(a), Tail(b))

TagChars(t) ==
    CASE t = "string"  -> <<115, 116, 114, 105, 110, 103>>
      [] t = "number"  -> <<110, 117, 109, 98, 101, 114>>
      [] t = "boolean" -> <<98, 111, 111, 108, 101, 97, 110>>
      [] t = "null"    -> <<110, 117, 108, 108>>
      [] t = "object"  -> <<111, 98, 106, 101, 99, 116>>
      [] t = "array"   -> <<97, 114, 114, 97, 121>>
      [] t = "unknown" -> <<117, 110, 107, 110, 111, 119, 110>>

TagLess(s, t) == StrLess(TagChars(s), TagChars(t))

(***************************************************************************)
(* Python values.                                                          *)
(***************************************************************************)
Leaf(k) == [kind |-> k, keys |-> <<>>, items |-> <<>>]
PyList(f) == [kind |-> "list", keys |-> <<>>, items |-> f]
PyDict(ks, f) == [kind |-> "dict", keys |-> ks, items |-> f]
PyNone == Leaf("NoneType")

\* isinstance(value, cls): bool is a subclass of int
IsInstance(value, cls) ==
    \/ value.kind = cls
    \/ value.kind = "bool" /\ cls = "int"

get_value_type(value) ==
    IF IsInstance(value, "str") THEN "string"
    ELSE IF IsInstance(value, "bool") THEN "boolean"
    ELSE IF IsInstance(value, "int") \/ IsInstance(value, "float") THEN "number"
    ELSE IF IsInstance(value, "dict") THEN "object"
    ELSE IF IsInstance(value, "list") THEN "array"
    ELSE IF value = PyNone THEN "null"
    ELSE "unknown"

\* the leaves of the values handed to analyze() directly; a tuple is a value
\* outside the JSON types.  The generators below give the trees of n nodes
\* over the leaves of the kinds ls, with lists or without.
LeafKinds == {"str", "int", "bool", "NoneType", "tuple"}

RECURSIVE TreesOfSize(_, _, _), Forests(_, _, _, _), ForestsFrom(_, _, _, _, _),
          ContainersFrom(_, _, _, _)
\* the forests of m trees and n nodes whose first tree has at least k nodes
ForestsFrom(n, m, k, ls, lists) ==
    IF k > n - m + 1 THEN {}
    ELSE LET trees == TreesOfSize(k, ls, lists)
             forests == Forests(n - k, m - 1, ls, lists)
         IN {<<t>> \o f : t \in trees, f \in forests} \cup ForestsFrom(n, m, k + 1, ls, lists)
\* the forests of m trees and n nodes
Forests(n, m, ls, lists) ==
    IF m = 0 THEN (IF n = 0 THEN {<<>>} ELSE {}) ELSE ForestsFrom(n, m, 1, ls, lists)
\* the containers of n nodes with at least m children
ContainersFrom(n, m, ls, lists) ==
    IF m > n - 1 THEN {}
    ELSE LET forests == Forests(n - 1, m, ls, lists)
         IN (IF lists THEN {PyList(f) : f \in forests} ELSE {})
            \cup {PyDict(ks, f) : ks \in [1..m -> Keys], f \in forests}
            \cup ContainersFrom(n, m + 1, ls, lists)
TreesOfSize(n, ls, lists) ==
    (IF n = 1 THEN {Leaf(k) : k \in ls} ELSE {}) \cup ContainersFrom(n, 0, ls, lists)

(***************************************************************************)
(* JSON documents and json.load.                                           *)
(***************************************************************************)
JLeaf(k) == [kind |-> k, keys |-> <<>>, items |-> <<>>]
JArray(f) == [kind |-> "array", keys |-> <<>>, items |-> f]
JObject(ks, f) == [kind |-> "object", keys |-> ks, items |-> f]

\* {"id":1,"id":2,"tags":["x","y"],"meta":null}
DocIdTags ==
    JObject(<<KeyId, KeyId, KeyTags, KeyMeta>>,
            <<JLeaf("integer"), JLeaf("integer"),
              JArray(<<JLeaf("string"), JLeaf("string")>>), JLeaf("null")>>)

\* {"a":{"x":1,"x":2},"b":{"x":3,"x":4}}
DocNested ==
    JObject(<<KeyA, KeyB>>,
            <<JObject(<<KeyX, KeyX>>, <<JLeaf("integer"), JLeaf("integer")>>),
              JObject(<<KeyX, KeyX>>, <<JLeaf("integer"), JLeaf("integer")>>)>>)

Docs ==
    {DocIdTags, DocNested,
     JLeaf("null"), JLeaf("true"), JLeaf("false"), JLeaf("integer"),
     JLeaf("real"), JLeaf("string"), JArray(<<>>), JObject(<<>>, <<>>),
     JArray(<<JLeaf("integer"), JLeaf("real")>>),
     JArray(<<JLeaf("null"), JLeaf("true")>>),
     JObject(<<KeyB, KeyA, KeyB>>, <<JLeaf("string"), JLeaf("null"), JArray(<<>>)>>)}

\* the member names of an object literal, each once, in order of first occurrence
RECURSIVE FirstOccurrences(_)
FirstOccurrences(ks) ==
    IF ks = <<>> THEN <<>>
    ELSE LET front == SubSeq(ks, 1, Len(ks) - 1)
             last == ks[Len(ks)]
         IN IF \E i \in 1..Len(front) : front[i] = last
            THEN FirstOccurrences(front)
            ELSE Append(FirstOccurrences(front), last)

LastIndex(ks, k) == CHOOSE i \in 1..Len(ks) : ks[i] = k /\ \A j \in (i + 1)..Len(ks) : ks[j] # k

\* json.load builds a dict from an object literal: a repeated member name
\* keeps its first position and its last value
RECURSIVE json_load(_)
json_load(doc) ==
    CASE doc.kind = "string"  -> Leaf("str")
      [] doc.kind = "integer" -> Leaf("int")
      [] doc.kind = "real"    -> Leaf("float")
      [] doc.kind \in {"true", "false"} -> Leaf("bool")
      [] doc.kind = "null"    -> PyNone
      [] doc.kind = "array"   -> PyList([i \in 1..Len(doc.items) |-> json_load(doc.items[i])])
      [] doc.kind = "object"  ->
            LET uks == FirstOccurrences(doc.keys)
            IN PyDict(uks, [i \in 1..Len(uks) |-> json_load(doc.items[LastIndex(doc.keys, uks[i])])])

(***************************************************************************)
(* Files and read_and_parse_json.                                          *)
(***************************************************************************)
FileSize == 1
File(st, c) == [status |-> st, content |-> c]
Files ==
    {File(st, None) : st \in {"missing", "directory", "denied", "undecodable", "invalid"}}
    \cup {File("valid", Some(d)) : d \in Docs}

Loaded(p, e, sz) == [parsed_data |-> p, error_message |-> e, file_size |-> sz]

read_and_parse_json(file) ==
    IF file.status = "missing" THEN Loaded(PyNone, Some("File not found"), None)
    ELSE IF file.status = "directory" THEN Loaded(PyNone, Some("is a directory"), None)
    ELSE IF file.status = "denied" THEN Loaded(PyNone, Some("Permission denied"), None)
    ELSE IF file.status = "invalid" THEN Loaded(PyNone, Some("JSON Decode Error"), Some(FileSize))
    ELSE IF file.status = "undecodable" THEN Loaded(PyNone, Some("Unexpected Error"), Some(FileSize))
    ELSE Loaded(json_load(file.content[1]), None, Some(FileSize))

(***************************************************************************)
(* The structural summary _analyze_recursive returns.                      *)
(***************************************************************************)
Summary(t, k, es, et, e) ==
    [type |-> t, keys |-> k, element_summary |-> es, element_types |-> et, is_empty |-> e]

SeqToSet(s) == {s[i] : i \in 1..Len(s)}

RECURSIVE SortTags(_)
SortTags(S) ==
    IF S = {} THEN <<>>
    ELSE LET m == CHOOSE x \in S : \A y \in S \ {x} : TagLess(x, y)
         IN <<m>> \o SortTags(S \ {m})

\* sorted(list(set(element_types)))
unique_types(element_types) == SortTags(SeqToSet(element_types))

Degenerate(t) == Summary(t, None, None, None, FALSE)

\* the first element's summary, without the uniformity check
element_summaryFirst(element_summaries, utypes) ==
    IF element_summaries = <<>> THEN None
    ELSE IF Len(utypes) = 1 THEN Some(element_summaries[1])
    ELSE None

element_summary(element_summaries, utypes) ==
    IF element_summaries = <<>> THEN None
    ELSE IF Len(utypes) = 1
         THEN LET first_summary == element_summaries[1]
                  is_uniform == \A i \in 1..Len(element_summaries) :
                                    element_summaries[i] = first_summary
              IN IF is_uniform THEN Some(first_summary) ELSE Some(Degenerate(utypes[1]))
    ELSE None

\* is_empty left at its initial False
IsEmptyNever(node) == FALSE

\* not bool(node) of a dict or a list
IsEmpty(node) == node.items = <<>>

RECURSIVE analyze_recursive(_)
analyze_recursive(node) ==
    LET node_type == get_value_type(node)
    IN IF node_type = "object"
       THEN Summary(node_type,
                    Some([k \in SeqToSet(node.keys) |->
                            analyze_recursive(node.items[LastIndex(node.keys, k)])]),
                    None, None, IsEmpty(node))
       ELSE IF node_type = "array"
       THEN LET element_summaries == [i \in 1..Len(node.items) |-> analyze_recursive(node.items[i])]
                element_types == [i \in 1..Len(node.items) |-> element_summaries[i].type]
                utypes == unique_types(element_types)
            IN Summary(node_type, None, element_summary(element_summaries, utypes),
                       Some(utypes), IsEmpty(node))
       ELSE Summary(node_type, None, None, None, FALSE)


(***************************************************************************)
(* The accumulators of one analyze call and the steps of the walk.         *)
(*                                                                         *)
(* The recursion of _analyze_recursive is unfolded on an explicit stack of *)
(* pending calls.  A frame holds the arguments of the call and, for the    *)
(* value of a repeated key, the duplicate entry the caller's loop appends  *)
(* just before it makes the call.                                          *)
(***************************************************************************)
ZeroStats ==
    [strings |-> 0, numbers |-> 0, booleans |-> 0, nulls |-> 0,
     objects |-> 0, arrays |-> 0, total_values |-> 0]

Max(a, b) == IF a >= b THEN a ELSE b

\* a type counter that misses the array case
CountTypeNoArrays(st, node_type) ==
    CASE node_type = "object"  -> [st EXCEPT !.objects = @ + 1]
      [] node_type = "string"  -> [st EXCEPT !.strings = @ + 1]
      [] node_type = "number"  -> [st EXCEPT !.numbers = @ + 1]
      [] node_type = "boolean" -> [st EXCEPT !.booleans = @ + 1]
      [] node_type = "null"    -> [st EXCEPT !.nulls = @ + 1]
      [] OTHER -> st

\* the counter of the node's type; 'unknown' has none
CountType(st, node_type) ==
    CASE node_type = "object"  -> [st EXCEPT !.objects = @ + 1]
      [] node_type = "array"   -> [st EXCEPT !.arrays = @ + 1]
      [] node_type = "string"  -> [st EXCEPT !.strings = @ + 1]
      [] node_type = "number"  -> [st EXCEPT !.numbers = @ + 1]
      [] node_type = "boolean" -> [st EXCEPT !.booleans = @ + 1]
      [] node_type = "null"    -> [st EXCEPT !.nulls = @ + 1]
      [] OTHER -> st

Frame(n, p, d, dup) == [node |-> n, path |-> p, depth |-> d, dup |-> dup]

KeyPath(current_path, key) ==
    IF current_path # <<>> THEN current_path \o <<Dot>> \o key ELSE key

IndexPath(current_path, i) == current_path \o <<LBracket>> \o Digits(i) \o <<RBracket>>

\* every child one level below the root, whatever its container's depth
ChildFramesFlat(fr) ==
    LET n == fr.node
    IN IF get_value_type(n) = "object"
       THEN [i \in 1..Len(n.items) |->
               Frame(n.items[i], KeyPath(fr.path, n.keys[i]), 1,
                     IF \E j \in 1..(i - 1) : n.keys[j] = n.keys[i]
                     THEN Some([path |-> fr.path, key |-> n.keys[i]]) ELSE None)]
       ELSE IF get_value_type(n) = "array"
       THEN [i \in 1..Len(n.items) |->
               Frame(n.items[i], IndexPath(fr.path, i - 1), 1, None)]
       ELSE <<>>

\* the recursive calls the loops of an object or array node make, in order
ChildFrames(fr) ==
    LET n == fr.node
    IN IF get_value_type(n) = "object"
       THEN [i \in 1..Len(n.items) |->
               Frame(n.items[i], KeyPath(fr.path, n.keys[i]), fr.depth + 1,
                     IF \E j \in 1..(i - 1) : n.keys[j] = n.keys[i]
                     THEN Some([path |-> fr.path, key |-> n.keys[i]]) ELSE None)]
       ELSE IF get_value_type(n) = "array"
       THEN [i \in 1..Len(n.items) |->
               Frame(n.items[i], IndexPath(fr.path, i - 1), fr.depth + 1, None)]
       ELSE <<>>

(***************************************************************************)
(* JsonAnalyzer                                                            *)
(***************************************************************************)
InitResults ==
    [filepath |-> None, analysis_error |-> None, file_size_bytes |-> None,
     root_type |-> None, max_depth |-> Some(0), statistics |-> None,
     structure |-> None, duplicate_keys |-> <<>>]

ApiSource(t) == [via |-> "api", data |-> t, file |-> None]
FileSource(f) == [via |-> "file", data |-> PyNone, file |-> Some(f)]

NoWalk ==
    /\ stats' = ZeroStats
    /\ duplicates' = <<>>
    /\ max_depth_tracker' = 0
    /\ stack' = <<>>

\* a new analyzer and the input it is used on: a tree of at most n nodes of
\* every kind, a tree of at most d nodes of mappings and numbers, or a file
InitFrom(n, d) ==
    /\ \/ \E f \in Files : source = FileSource(f)
       \/ \E size \in 1..n :
             \/ size = 1 /\ \E k \in LeafKinds : source = ApiSource(Leaf(k))
             \/ \E m \in 0..(size - 1) : \E f \in Forests(size - 1, m, LeafKinds, TRUE) :
                   \/ source = ApiSource(PyList(f))
                   \/ \E ks \in [1..m -> Keys] : source = ApiSource(PyDict(ks, f))
       \/ \E size \in 1..d :
             \E m \in 0..(size - 1) : \E f \in Forests(size - 1, m, {"int"}, FALSE) :
                \E ks \in [1..m -> Keys] : source = ApiSource(PyDict(ks, f))
    /\ pc = "idle"
    /\ calls = 0
    /\ parsed_data = PyNone
    /\ results = InitResults
    /\ stats = ZeroStats
    /\ duplicates = <<>>
    /\ max_depth_tracker = 0
    /\ stack = <<>>
    /\ fresh = None
    /\ report_data = None
    /\ report = None

Init == InitFrom(MaxNodes, MaxDictNodes)

InitReuse == InitFrom(MaxReuseNodes, MaxReuseNodes)

\* analyze, up to the first call of _analyze_recursive
BeginAnalyze(res, data) ==
    /\ parsed_data' = data
    /\ results' = [res EXCEPT !.root_type = Some(get_value_type(data))]
    /\ stats' = ZeroStats
    /\ duplicates' = <<>>
    /\ max_depth_tracker' = 0
    /\ stack' = <<Frame(data, RootPath, 0, None)>>
    /\ calls' = calls + 1
    /\ pc' = "walking"

\* analyzer.analyze(data) on a new analyzer
Analyze ==
    /\ pc = "idle"
    /\ source.via = "api"
    /\ BeginAnalyze(results, source.data)
    /\ UNCHANGED <<source, fresh, report_data, report>>

\* analyzer.analyze(data) again, with the same data, on an analyzer whose
\* earlier analyze call has returned
AnalyzeAgain ==
    /\ pc = "done"
    /\ calls > 0
    /\ calls < MaxCalls
    /\ BeginAnalyze(results, parsed_data)
    /\ UNCHANGED <<source, fresh, report_data, report>>

\* one call of _analyze_recursive, up to its first recursive call
Visit ==
    /\ pc = "walking"
    /\ stack # <<>>
    /\ LET fr == Head(stack)
           node_type == get_value_type(fr.node)
       IN /\ duplicates' = IF fr.dup # None THEN Append(duplicates, fr.dup[1]) ELSE duplicates
          /\ stats' = CountType([stats EXCEPT !.total_values = @ + 1], node_type)
          /\ max_depth_tracker' = Max(max_depth_tracker, fr.depth)
          /\ stack' = ChildFrames(fr) \o Tail(stack)
    /\ UNCHANGED <<source, pc, calls, parsed_data, results, fresh, report_data, report>>

\* the root call has returned: analyze attaches the accumulators
Finish ==
    /\ pc = "walking"
    /\ stack = <<>>
    /\ results' = [results EXCEPT !.structure = Some(analyze_recursive(parsed_data)),
                                  !.statistics = Some(stats),
                                  !.max_depth = Some(max_depth_tracker),
                                  !.duplicate_keys = duplicates]
    /\ fresh' = IF calls = 1 THEN Some(results') ELSE fresh
    /\ pc' = "done"
    /\ NoWalk
    /\ UNCHANGED <<source, calls, parsed_data, report_data, report>>

\* an exception inside the walk (RecursionError, MemoryError): the except
\* branch of analyze
Fault ==
    /\ pc = "walking"
    /\ stack # <<>>
    /\ results' = [results EXCEPT !.analysis_error = Some("Unexpected Analysis Error"),
                                  !.structure = None,
                                  !.statistics = None,
                                  !.max_depth = None,
                                  !.duplicate_keys = <<>>]
    /\ pc' = "done"
    /\ NoWalk
    /\ UNCHANGED <<source, calls, parsed_data, fresh, report_data, report>>


(***************************************************************************)
(* analyze_json_file                                                       *)
(***************************************************************************)
AnalyzeJsonFile ==
    /\ pc = "idle"
    /\ source.via = "file"
    /\ calls = 0
    /\ LET ld == read_and_parse_json(source.file[1])
           res == [InitResults EXCEPT !.filepath = Some("abspath"),
                                      !.file_size_bytes = ld.file_size]
       IN IF ld.error_message # None
          THEN /\ results' = [res EXCEPT !.analysis_error = ld.error_message,
                                         !.root_type = None,
                                         !.max_depth = None,
                                         !.statistics = None,
                                         !.structure = None,
                                         !.duplicate_keys = <<>>]
               /\ pc' = "done"
               /\ NoWalk
               /\ UNCHANGED <<calls, parsed_data>>
          ELSE IF ld.parsed_data # PyNone
          THEN BeginAnalyze(res, ld.parsed_data)
          ELSE /\ results' = [res EXCEPT !.analysis_error = Some("Unknown error")]
               /\ pc' = "done"
               /\ NoWalk
               /\ UNCHANGED <<calls, parsed_data>>
    /\ UNCHANGED <<source, fresh, report_data, report>>

(***************************************************************************)
(* generate_json_report                                                    *)
(***************************************************************************)
\* the order of the sort key (d['path'], d['key']): Python's tuple order
DupLess(d1, d2) ==
    \/ StrLess(d1.path, d2.path)
    \/ d1.path = d2.path /\ StrLess(d1.key, d2.key)

\* list.sort is stable: x goes behind every element that is not greater
InsertSorted(s, x) ==
    LET c == Cardinality({i \in 1..Len(s) : ~DupLess(x, s[i])})
    IN SubSeq(s, 1, c) \o <<x>> \o SubSeq(s, c + 1, Len(s))

RECURSIVE sorted(_)
\* the list left in the order of the traversal
sortedNot(dups) == dups

sorted(dups) ==
    IF dups = <<>> THEN <<>>
    ELSE InsertSorted(sorted(SubSeq(dups, 1, Len(dups) - 1)), dups[Len(dups)])

RECURSIVE clean_summary(_)
clean_summary(s) ==
    LET kept == {"type", "is_empty"}
                \cup (IF s.keys # None THEN {"keys"} ELSE {})
                \cup (IF s.element_summary # None THEN {"element_summary"} ELSE {})
                \cup (IF s.element_types # None THEN {"element_types"} ELSE {})
    IN [f \in kept |->
          CASE f = "type" -> s.type
            [] f = "is_empty" -> s.is_empty
            [] f = "keys" -> Some([k \in DOMAIN s.keys[1] |-> clean_summary(s.keys[1][k])])
            [] f = "element_summary" -> Some(clean_summary(s.element_summary[1]))
            [] f = "element_types" -> s.element_types]

\* _clean_none_values_report on the top-level dict: a key whose value is
\* None is dropped, the other values are cleaned recursively
clean_none_values_report(item) ==
    LET kept == {f \in DOMAIN item : f = "duplicate_keys" \/ item[f] # None}
    IN [f \in kept |->
          IF f = "structure" THEN Some(clean_summary(item.structure[1])) ELSE item[f]]

GenerateReport ==
    /\ pc = "done"
    /\ LET rd == [results EXCEPT !.duplicate_keys = IF @ # <<>> THEN sorted(@) ELSE @]
       IN /\ report_data' = Some(rd)
          /\ report' = Some(clean_none_values_report(rd))
    /\ pc' = "reported"
    /\ UNCHANGED <<source, calls, parsed_data, results, stats, duplicates,
                   max_depth_tracker, stack, fresh>>

Next ==
    \/ AnalyzeJsonFile
    \/ Analyze
    \/ Visit
    \/ Finish
    \/ Fault
    \/ GenerateReport

Spec == Init /\ [][Next]_vars

\* the same program with an analyzer instance that is used again
NextReuse == Next \/ AnalyzeAgain

SpecReuse == InitReuse /\ [][NextReuse]_vars


(***************************************************************************)
(* Reference definitions of the properties.                                *)
(***************************************************************************)
RECURSIVE NodeCount(_), SumCounts(_, _), Height(_), MaxHeight(_, _), HasUnknown(_)
SumCounts(f, i) == IF i = 0 THEN 0 ELSE NodeCount(f[i]) + SumCounts(f, i - 1)
\* the number of nodes of a tree, root included
NodeCount(t) == 1 + SumCounts(t.items, Len(t.items))

MaxHeight(f, i) == IF i = 0 THEN 0 ELSE Max(1 + Height(f[i]), MaxHeight(f, i - 1))
\* the depth of the deepest node, the root being at depth 0
Height(t) == MaxHeight(t.items, Len(t.items))

HasUnknown(t) ==
    \/ t.kind \notin {"str", "bool", "int", "float", "dict", "list", "NoneType"}
    \/ \E i \in 1..Len(t.items) : HasUnknown(t.items[i])

SumSix(st) == st.strings + st.numbers + st.booleans + st.nulls + st.objects + st.arrays

Returned == pc \in {"done", "reported"}
\* the last analyze call walked the whole tree
Succeeded == Returned /\ results.statistics # None
ViaFile == source.via = "file"
Structure == results.structure[1]

IsSortedDups(s) == \A i, j \in 1..Len(s) : i < j => ~DupLess(s[j], s[i])

\* C1: while the walk runs and when analyze has returned its result, for an
\* input tree without unknown-typed nodes total_values is the sum of the six
\* type counters, and in the result it is the number of nodes of the tree
C1_TotalValuesIsSumAndNodeCount ==
    ~HasUnknown(parsed_data) =>
        /\ pc = "walking" => stats.total_values = SumSix(stats)
        /\ Succeeded =>
              /\ results.statistics[1].total_values = SumSix(results.statistics[1])
              /\ results.statistics[1].total_values = NodeCount(parsed_data)

C1_Witness ==
    /\ pc = "done" /\ Succeeded
    /\ ~HasUnknown(parsed_data)
    /\ results.statistics[1].arrays >= 1
    /\ results.statistics[1].objects >= 1
    /\ results.statistics[1].total_values = 4

\* C2: a result that carries an analysis_error has no structure, no
\* statistics, no max_depth and an empty duplicate_keys
C2_ErrorExcludesAnalysis ==
    (Returned /\ results.analysis_error # None) =>
        /\ results.structure = None
        /\ results.statistics = None
        /\ results.max_depth = None
        /\ results.duplicate_keys = <<>>

\* C3: read through the loader and analyzed, {"id":1,"id":2,"tags":["x","y"],
\* "meta":null} gives numbers=2, total_values=7 and the one duplicate
\* (root, id), and {"a":{"x":1,"x":2},"b":{"x":3,"x":4}} gives the two
\* duplicates (root.a, x) and (root.b, x)
C3_DuplicatesOfLoadedDocuments ==
    (ViaFile /\ Succeeded /\ source.file[1].status = "valid") =>
        /\ source.file[1].content[1] = DocIdTags =>
              /\ results.statistics[1].numbers = 2
              /\ results.statistics[1].total_values = 7
              /\ results.duplicate_keys = <<[path |-> RootPath, key |-> KeyId]>>
        /\ source.file[1].content[1] = DocNested =>
              results.duplicate_keys =
                  <<[path |-> KeyPath(RootPath, KeyA), key |-> KeyX],
                    [path |-> KeyPath(RootPath, KeyB), key |-> KeyX]>>

\* C4: the max_depth analyze reports is the depth of the deepest node of the
\* input tree, the root being at depth 0
C4_MaxDepthIsHeight ==
    Succeeded => results.max_depth = Some(Height(parsed_data))

C4_Witness ==
    /\ pc = "done" /\ Succeeded
    /\ Height(parsed_data) = 3
    /\ results.max_depth = Some(3)

\* the rule of C5 for one non-empty array node and its summary
ArrayRule(node, s) ==
    LET es == [i \in 1..Len(node.items) |-> analyze_recursive(node.items[i])]
        types == {es[i].type : i \in 1..Len(es)}
    IN /\ s.element_types # None
       /\ LET et == s.element_types[1]
          IN /\ SeqToSet(et) = types
             /\ \A i, j \in 1..Len(et) : i < j => TagLess(et[i], et[j])
       /\ IF Cardinality(types) = 1
          THEN IF \A i \in 1..Len(es) : es[i] = es[1]
               THEN s.element_summary = Some(es[1])
               ELSE s.element_summary =
                        Some([type |-> es[1].type, keys |-> None, element_summary |-> None,
                              element_types |-> None, is_empty |-> FALSE])
          ELSE s.element_summary = None

RECURSIVE ArraysOK(_, _)
\* ArrayRule at every non-empty array node whose summary the structure keeps
ArraysOK(node, s) ==
    IF s.type = "array"
    THEN node.items # <<>> =>
            /\ ArrayRule(node, s)
            /\ \A i \in 1..Len(node.items) :
                  ArraysOK(node.items[i], analyze_recursive(node.items[i]))
    ELSE IF s.type = "object"
    THEN s.keys # None
         /\ \A k \in DOMAIN s.keys[1] :
               ArraysOK(node.items[LastIndex(node.keys, k)], s.keys[1][k])
    ELSE TRUE

\* C5: for every non-empty array node element_types is the sorted set of the
\* elements' type tags, and element_summary is the first element's summary
\* (one type, all summaries equal), the degenerate summary of that type (one
\* type, summaries differ) or absent (several types)
C5_ArraySummaries ==
    Succeeded => results.structure # None /\ ArraysOK(parsed_data, Structure)

C5_Witness ==
    /\ pc = "done" /\ Succeeded
    /\ Structure.type = "array"
    /\ Structure.element_types = Some(<<"object">>)
    /\ Structure.element_summary # None
    /\ Structure.element_summary[1].keys = None

RECURSIVE EmptinessOK(_, _, _)
\* the emptiness rule at every node whose summary the structure keeps;
\* types_of_empty is the element_types expected of an empty array
EmptinessOK(node, s, types_of_empty) ==
    IF s.type = "object"
    THEN /\ s.keys # None
         /\ s.is_empty = (node.items = <<>>)
         /\ node.items = <<>> => DOMAIN s.keys[1] = {}
         /\ \A k \in DOMAIN s.keys[1] :
               EmptinessOK(node.items[LastIndex(node.keys, k)], s.keys[1][k], types_of_empty)
    ELSE IF s.type = "array"
    THEN /\ s.is_empty = (node.items = <<>>)
         /\ node.items = <<>> =>
               s.element_types = types_of_empty /\ s.element_summary = None
         /\ \A i \in 1..Len(node.items) :
               EmptinessOK(node.items[i], analyze_recursive(node.items[i]), types_of_empty)
    ELSE s.is_empty = FALSE

\* C6 as stated: {} has is_empty and no keys; [] has is_empty, element_types
\* absent and element_summary absent; every other node has is_empty false
C6_EmptyArrayTypesAbsent ==
    Succeeded => EmptinessOK(parsed_data, Structure, None)

\* C6 amended: as above, but the element_types of [] is the empty list
C6_EmptyContainers ==
    Succeeded => EmptinessOK(parsed_data, Structure, Some(<<>>))

C6_Witness ==
    /\ pc = "done" /\ Succeeded
    /\ parsed_data = PyDict(<<KeyA, KeyB>>, <<PyList(<<>>), PyDict(<<>>, <<>>)>>)
    /\ Structure.keys[1][KeyA].is_empty
    /\ Structure.keys[1][KeyB].is_empty
    /\ ~Structure.is_empty

C8_NestedNullsKept ==
    (pc = "reported" /\ results.structure # None) =>
        /\ "structure" \in DOMAIN report[1]
        /\ report[1].structure = results.structure

\* C9: a successful analyze of a tree on an analyzer used before gives the
\* result the first, fresh analysis of that tree gave
C9_SameAsFresh ==
    (pc = "done" /\ Succeeded /\ fresh # None) => results = fresh[1]

\* C10: analyze_json_file passes every file of valid JSON to analyze and
\* never takes the 'Unknown error' branch
C10_ValidJsonIsAnalyzed ==
    (Returned /\ ViaFile) =>
        /\ results.analysis_error # Some("Unknown error")
        /\ source.file[1].status = "valid" => calls > 0 /\ results.root_type # None

====
